---- MODULE Spec2Model ----
(***************************************************************************)
(* hadoopy/_hdfs.py: the typedbytes reader readtb (a generator that merges *)
(* the record streams of up to num_procs "dumptb" subprocesses) and the    *)
(* writer writetb (one "loadtb" subprocess fed through a pipe).            *)
(***************************************************************************)
EXTENDS Integers, Sequences, FiniteSets, TLC

\* ------------------------------------------------------------------ bounds
MaxRoots == 2   \* longest list of roots handed to readtb
MaxRecs  == 2   \* most records a stored file holds
MaxProcs == 2   \* largest num_procs tried
MaxKvs   == 3   \* longest record sequence handed to writetb

\* ------------------------------------------------- the HDFS the model runs on
\* A path is a tuple of characters.  Roots are named by a short string.
\* "d" is a directory holding _S and p0, "z" an empty directory, "m" is missing.
P_dS  == <<"/", "d", "/", "_", "S">>
P_dp0 == <<"/", "d", "/", "p", "0">>

Roots == {"d", "z", "m"}
Files == {P_dS, P_dp0}

\* What "hadoop fs -ls <root>" prints and how it exits: a directory listing
\* starts with a "Found N items" line and ends with an empty line, an empty
\* directory prints nothing, a missing path exits 255 with a message on stderr.
FoundLine(n)  == [kind |-> "found", last |-> <<>>]
EntryLine(p)  == [kind |-> "entry", last |-> p]
BlankLine     == [kind |-> "blank", last |-> <<>>]

\* A command line is a format string and the path put into it.
HadoopFsLs(root) ==
    CASE root = "d" -> [cmd |-> <<"hadoop fs -ls %s", root>>, rcode |-> 0, stderr |-> "",
                        stdout |-> <<FoundLine(2), EntryLine(P_dS), EntryLine(P_dp0), BlankLine>>]
      [] root = "z" -> [cmd |-> <<"hadoop fs -ls %s", root>>, rcode |-> 0, stderr |-> "",
                        stdout |-> <<BlankLine>>]
      [] OTHER      -> [cmd |-> <<"hadoop fs -ls %s", root>>, rcode |-> 255,
                        stderr |-> "ls: Cannot access", stdout |-> <<>>]

\* How "hadoop jar <hstreaming> dumptb <path>" exits: _S is a marker file, not
\* a record file, and its dump fails (exit code 1) once it has written what
\* it could decode; the dump of a record file exits 0.
DumpExitCode(p) == IF p = P_dS THEN 1 ELSE 0

\* _checked_hadoop_fs_command, given the command line and what the command
\* did (exit code, stdout, stderr): raise IOError('Ran[%s]: %s' % (cmd,
\* stderr)) unless the exit code is 0, else return (rcode, stdout, stderr).
\* The field cmd of the result is the command text the error carries.
\* The mutants accept every exit code, or only catch the positive ones.
CheckedAcceptAll(res) ==
    [raised |-> FALSE, cmd |-> <<>>, rcode |-> res.rcode, stdout |-> res.stdout,
     stderr |-> res.stderr]

CheckedPositiveOnly(res) ==
    IF res.rcode > 0
    THEN [raised |-> TRUE, cmd |-> res.cmd, rcode |-> res.rcode, stdout |-> <<>>,
          stderr |-> res.stderr]
    ELSE [raised |-> FALSE, cmd |-> <<>>, rcode |-> res.rcode, stdout |-> res.stdout,
          stderr |-> res.stderr]

_checked_hadoop_fs_command(res) ==
    IF res.rcode # 0
    THEN [raised |-> TRUE, cmd |-> res.cmd, rcode |-> res.rcode, stdout |-> <<>>,
          stderr |-> res.stderr]
    ELSE [raised |-> FALSE, cmd |-> <<>>, rcode |-> res.rcode, stdout |-> res.stdout,
          stderr |-> res.stderr]

\* ls: the last field of every line that is neither empty nor the header.
RECURSIVE LsLines(_)
LsLines(lines) ==
    IF lines = <<>> THEN <<>>
    ELSE IF Head(lines).kind = "entry"
         THEN <<Head(lines).last>> \o LsLines(Tail(lines))
         ELSE LsLines(Tail(lines))

ls(root) ==
    LET r == _checked_hadoop_fs_command(HadoopFsLs(root))
    IN  IF r.raised THEN [raised |-> TRUE, out |-> <<>>]
        ELSE [raised |-> FALSE, out |-> LsLines(r.stdout)]

\* os.path.basename: what follows the last "/".
RECURSIVE basename(_)
basename(p) ==
    IF p = <<>> THEN <<>>
    ELSE IF p[Len(p)] = "/" THEN <<>>
    ELSE basename(SubSeq(p, 1, Len(p) - 1)) \o <<p[Len(p)]>>

\* keep_file = lambda x: os.path.basename(x)[0] != '_'
\* The mutant tests the first character of the path instead.
KeepByFirstChar(p) == p[1] # "_"

keep_file(p) == basename(p)[1] # "_"

RECURSIVE filter(_)
filter(ps) ==
    IF ps = <<>> THEN <<>>
    ELSE IF keep_file(Head(ps)) THEN <<Head(ps)>> \o filter(Tail(ps))
    ELSE filter(Tail(ps))

\* ------------------------------------------------------------ readtb: state
VARIABLES
    paths,        \* the roots, after "if isinstance(paths, str): paths = [paths]"
    ignore_logs,  \* argument
    num_procs,    \* argument
    content,      \* number of records the dump of each stored file decodes to
    pc,           \* where the generator readtb stands
    x,            \* loop variable of "for x in range(num_procs)"
    path_gen,     \* the generator _path_gen(): its position, or None
    read_fds,     \* set of read ends being polled
    procs,        \* read_fd -> state of the dump subprocess
    tb_fps,       \* read_fd -> the TypedBytesFile: its path and records decoded
    cur_fds,      \* what select returned and the for loop has not visited yet
    out,          \* read_fd -> the records of that source handed to the caller, in order
    opened,       \* paths _open_tb was called for, in order (read_fd i <-> opened[i])
    waited,       \* read_fds whose subprocess p.wait() has collected
    err           \* the error raised inside readtb: the root the IOError of a failed
                  \* listing names, "DecodeError" for an error of the decoder, or ""

rvars == <<paths, ignore_logs, num_procs, content, pc, x, path_gen, read_fds,
           procs, tb_fps, cur_fds, out, opened, waited, err>>

\* writetb: state
VARIABLES
    kvs,       \* the records the iterator kvs (argument) hands out
    kvs_raises,\* TRUE when the iterator raises an error after them, FALSE when it ends
    wpc,       \* where writetb stands
    widx,      \* number of records "for kv in kvs" has pulled
    poll,      \* what p.poll() said for the record in hand: "none" before the call
    written,   \* records pushed into the pipe by tb_fp.write, in order
    tb_fp,     \* the TypedBytesFile on write_fd: flushed?, closed?
    loader,    \* the loadtb subprocess: running?, exit code, records consumed
    collected  \* TRUE once the parent has waited for the loader

wvars == <<kvs, kvs_raises, wpc, widx, poll, written, tb_fp, loader, collected>>

\* _checked_hadoop_fs_command: state
VARIABLES
    cmd,    \* the command line (argument)
    child,  \* the subprocess: running?, and the exit code, stdout and stderr it ends with
    cpc,    \* where the call stands
    ret     \* what the call returned or raised

cvars == <<cmd, child, cpc, ret>>

\* The record a dump of file p decodes at position j.
Rec(p, j) == [file |-> p, n |-> j]

RECURSIVE SeqsUpTo(_, _)
SeqsUpTo(S, n) ==
    IF n = 0 THEN {<<>>}
    ELSE LET shorter == SeqsUpTo(S, n - 1)
         IN  shorter \cup {Append(s, e) : s \in {t \in shorter : Len(t) = n - 1}, e \in S}

\* "if isinstance(paths, str): paths = [paths]"
NormPaths(isstr, arg) == IF isstr THEN <<arg>> ELSE arg

\* A generator object of _path_gen: root = index of the root whose listing is
\* being walked (0 before the first next()), rest = its paths not yet opened.
NewPathGen == [live |-> TRUE, root |-> 0, rest |-> <<>>]
NonePathGen == [live |-> FALSE, root |-> 0, rest |-> <<>>]

InitRead ==
    /\ \/ \E r \in Roots : paths = NormPaths(TRUE, r)
       \/ \E l \in SeqsUpTo(Roots, MaxRoots) \ {<<>>} : paths = NormPaths(FALSE, l)
    /\ ignore_logs \in BOOLEAN
    /\ num_procs \in 0..MaxProcs
    /\ content \in [Files -> 0..MaxRecs]
    /\ pc = "start"
    /\ x = 0
    /\ path_gen = NewPathGen
    /\ read_fds = {}
    /\ procs = << >>
    /\ tb_fps = << >>
    /\ cur_fds = {}
    /\ out = << >>
    /\ opened = <<>>
    /\ waited = {}
    /\ err = ""

\* ------------------------------------------------------ readtb: _path_gen
\* One path_gen.next(): run _path_gen up to its next yield.  The result is
\* "open" (a path was handed to _open_tb), "stop" (StopIteration) or
\* "ioerror" (ls of paths[root] raised, re-raised naming that root).
\* "for cur_path in all_paths": the path the loop takes next and the paths
\* it leaves for later.  The mutant walks the listing from its end.
PopLast(rest) == [cur_path |-> rest[Len(rest)], rest |-> SubSeq(rest, 1, Len(rest) - 1)]

PopNext(rest) == [cur_path |-> Head(rest), rest |-> Tail(rest)]

RECURSIVE PathGenResume(_, _, _, _)
PathGenResume(ps, ign, root, rest) ==
    IF rest # <<>>
    THEN [kind |-> "open", path |-> PopNext(rest).cur_path, bad |-> "",
          gen |-> [live |-> TRUE, root |-> root, rest |-> PopNext(rest).rest]]
    ELSE IF root >= Len(ps)
    THEN [kind |-> "stop", path |-> <<>>, bad |-> "", gen |-> NonePathGen]
    ELSE LET r == ls(ps[root + 1])
         IN  IF r.raised
             THEN [kind |-> "ioerror", path |-> <<>>, bad |-> ps[root + 1],
                   gen |-> NonePathGen]
             ELSE PathGenResume(ps, ign, root + 1,
                                IF ign THEN filter(r.out) ELSE r.out)

\* path_gen.next() as the two call sites run it: on None the AttributeError
\* is caught like StopIteration.
PathGenNext(ps, ign, g) ==
    IF ~g.live
    THEN [kind |-> "stop", path |-> <<>>, bad |-> "", gen |-> NonePathGen]
    ELSE PathGenResume(ps, ign, g.root, g.rest)

\* The concrete paths still to come from a generator (up to a failing root).
RECURSIVE PendingFrom(_, _, _)
PendingFrom(ps, ign, g) ==
    LET r == PathGenNext(ps, ign, g)
    IN  IF r.kind = "open" THEN <<r.path>> \o PendingFrom(ps, ign, r.gen) ELSE <<>>

Pending == PendingFrom(paths, ignore_logs, path_gen)

\* TRUE when walking on from g runs into a root whose listing fails.
RECURSIVE HitsBadRoot(_, _, _)
HitsBadRoot(ps, ign, g) ==
    LET r == PathGenNext(ps, ign, g)
    IN  CASE r.kind = "open"    -> HitsBadRoot(ps, ign, r.gen)
          [] r.kind = "ioerror" -> TRUE
          [] OTHER              -> FALSE

\* ------------------------------------------------------ readtb: the steps
\* "for x in range(num_procs)": the number of iterations.  The mutant runs
\* the loop once more.
RangeOneMore(n) == IF n < 0 THEN 0 ELSE n + 1

range(n) == IF n < 0 THEN 0 ELSE n

\* tp_fp.next() on a decoder that has decoded pos of the total records of its
\* stream: the next record, or StopIteration at end-of-stream.
TbNext(p, total, pos) ==
    IF pos < total THEN [stop |-> FALSE, kv |-> Rec(p, pos + 1), pos |-> pos + 1]
    ELSE [stop |-> TRUE, kv |-> Rec(p, 0), pos |-> pos]

\* "yield tp_fp.next()": the record just decoded goes to the caller, after
\* the records of that source handed over before.  The mutants lose the
\* record, or hand it over ahead of the earlier ones.
ForwardDrop(sofar, kv) == sofar

ForwardFront(sofar, kv) == <<kv>> \o sofar

Forward(sofar, kv) == Append(sofar, kv)

Without(f, k) == [i \in DOMAIN f \ {k} |-> f[i]]

\* _open_tb(cur_path): spawn the dump, register its read end.
OpenTb(cur_path) ==
    LET read_fd == Len(opened) + 1
    IN  /\ opened' = Append(opened, cur_path)
        /\ read_fds' = read_fds \cup {read_fd}
        /\ procs' = (read_fd :> "running") @@ procs
        /\ tb_fps' = (read_fd :> [path |-> cur_path, pos |-> 0]) @@ tb_fps
        /\ out' = (read_fd :> <<>>) @@ out

\* try: path_gen.next()  except (AttributeError, StopIteration): path_gen = None
\* An IOError of ls passes through and ends readtb.
TryPathGenNext(nextpc) ==
    LET r == PathGenNext(paths, ignore_logs, path_gen)
    IN  CASE r.kind = "open" ->
               /\ OpenTb(r.path)
               /\ path_gen' = r.gen
               /\ pc' = nextpc
               /\ UNCHANGED err
          [] r.kind = "stop" ->
               /\ path_gen' = NonePathGen
               /\ pc' = nextpc
               /\ UNCHANGED <<opened, read_fds, procs, tb_fps, out, err>>
          [] OTHER ->
               /\ path_gen' = r.gen
               /\ pc' = "error"
               /\ err' = r.bad
               /\ UNCHANGED <<opened, read_fds, procs, tb_fps, out>>

\* The caller's first next(): the body starts to run.
Start ==
    /\ pc = "start"
    /\ pc' = IF range(num_procs) = 0 THEN "while" ELSE "fill"
    /\ UNCHANGED <<paths, ignore_logs, num_procs, content, x, path_gen, read_fds,
                   procs, tb_fps, cur_fds, out, opened, waited, err>>
    /\ UNCHANGED <<wvars, cvars>>

\* One iteration of "for x in range(num_procs)".
FillStep ==
    /\ pc = "fill"
    /\ x < range(num_procs)
    /\ x' = x + 1
    /\ TryPathGenNext(IF x + 1 < range(num_procs) THEN "fill" ELSE "while")
    /\ UNCHANGED <<paths, ignore_logs, num_procs, content, cur_fds, waited>>
    /\ UNCHANGED <<wvars, cvars>>

\* "while read_fds:".  The mutant leaves the loop with one source left.
WhileMoreThanOne(fds) == Cardinality(fds) > 1

WhileReadFds(fds) == fds # {}

\* A read end is readable when a record or end-of-file is there to read.
Readable(fd) ==
    \/ tb_fps[fd].pos < content[tb_fps[fd].path]
    \/ procs[fd] # "running"

\* "while read_fds:" is true; select.select(read_fds, [], [])[0] blocks until
\* some read end is readable and returns any non-empty set of readable ones.
Select ==
    /\ pc = "while"
    /\ WhileReadFds(read_fds)
    /\ \E S \in SUBSET {fd \in read_fds : Readable(fd)} :
          /\ S # {}
          /\ cur_fds' = S
    /\ pc' = "for"
    /\ UNCHANGED <<paths, ignore_logs, num_procs, content, x, path_gen, read_fds,
                   procs, tb_fps, out, opened, waited, err>>
    /\ UNCHANGED <<wvars, cvars>>

\* "while read_fds:" is false: the generator returns.
Finish ==
    /\ pc = "while"
    /\ ~WhileReadFds(read_fds)
    /\ pc' = "done"
    /\ UNCHANGED <<paths, ignore_logs, num_procs, content, x, path_gen, read_fds,
                   procs, tb_fps, cur_fds, out, opened, waited, err>>
    /\ UNCHANGED <<wvars, cvars>>

\* Where "yield" leaves the generator: suspended until the caller's next
\* next().  The mutant runs on without waiting for the caller.
YieldNoSuspend == "for"

YieldPc == "yield"

\* "for read_fd in cur_fds": yield tp_fp.next()
Yield(read_fd) ==
    /\ pc = "for"
    /\ read_fd \in cur_fds
    /\ LET tp_fp == tb_fps[read_fd]
           r == TbNext(tp_fp.path, content[tp_fp.path], tp_fp.pos)
       IN  /\ ~r.stop
           /\ tb_fps' = [tb_fps EXCEPT ![read_fd].pos = r.pos]
           /\ out' = [out EXCEPT ![read_fd] = Forward(@, r.kv)]
    /\ cur_fds' = cur_fds \ {read_fd}
    /\ pc' = YieldPc
    /\ UNCHANGED <<paths, ignore_logs, num_procs, content, x, path_gen, read_fds,
                   procs, opened, waited, err>>
    /\ UNCHANGED <<wvars, cvars>>

\* What the try statement around "yield tp_fp.next()" does with an
\* exception of the decoder: "except StopIteration" runs the retirement,
\* anything else passes through.  The mutant catches every exception as
\* end-of-stream.
ExceptEverything(exc) == "retire"

ExceptStopIteration(exc) == IF exc = "StopIteration" THEN "retire" ELSE "propagate"

\* p.wait(): the subprocess of read_fd is collected.  The mutant forgets it.
CollectNothing(w, read_fd) == w

Collect(w, read_fd) == w \cup {read_fd}

\* What the handler does with the exit status p.wait() returns: nothing, it
\* goes on to the deletions and the path_gen.next() whatever the status.
\* The mutant raises on a nonzero status.
AfterPWaitChecked(rcode) == IF rcode # 0 THEN "dump_failed" ELSE "backfill"

AfterPWait(rcode) == "backfill"

\* read_fds.remove(read_fd).  The mutant leaves the read end in the set.
RemoveNothing(fds, read_fd) == fds

Remove(fds, read_fd) == fds \ {read_fd}

\* The body of the handler: p.wait() (blocks until the subprocess has
\* exited), del procs[read_fd], del tb_fps[read_fd],
\* read_fds.remove(read_fd).
RetireSteps(read_fd) ==
    /\ procs[read_fd] # "running"
    /\ waited' = Collect(waited, read_fd)
    /\ procs' = Without(procs, read_fd)
    /\ tb_fps' = Without(tb_fps, read_fd)
    /\ read_fds' = Remove(read_fds, read_fd)
    /\ cur_fds' = cur_fds \ {read_fd}
    /\ pc' = AfterPWait(DumpExitCode(tb_fps[read_fd].path))

\* tp_fp.next() raises StopIteration: the source is retired.
Retire(read_fd) ==
    /\ pc = "for"
    /\ read_fd \in cur_fds
    /\ LET tp_fp == tb_fps[read_fd]
       IN  TbNext(tp_fp.path, content[tp_fp.path], tp_fp.pos).stop
    /\ ExceptStopIteration("StopIteration") = "retire"
    /\ RetireSteps(read_fd)
    /\ UNCHANGED <<paths, ignore_logs, num_procs, content, x, path_gen, out,
                   opened, err>>
    /\ UNCHANGED <<wvars, cvars>>

\* tp_fp.next() raises a decode error (the bytes in the pipe are not a
\* well-formed record): no handler of readtb matches, the error leaves the
\* generator, which is finished from then on.
DecodeError(read_fd) ==
    /\ pc = "for"
    /\ read_fd \in cur_fds
    /\ err' = "DecodeError"
    /\ LET h == ExceptStopIteration("DecodeError")
       IN  CASE h = "retire" ->
                  /\ RetireSteps(read_fd)
             [] OTHER ->
                  /\ pc' = "decode_error"
                  /\ UNCHANGED <<read_fds, procs, tb_fps, cur_fds, waited>>
    /\ UNCHANGED <<paths, ignore_logs, num_procs, content, x, path_gen, out, opened>>
    /\ UNCHANGED <<wvars, cvars>>

\* The path_gen.next() that follows a retirement.  The mutant forgets it.
BackfillSkip ==
    /\ pc = "backfill"
    /\ pc' = "for"
    /\ UNCHANGED <<paths, ignore_logs, num_procs, content, x, path_gen, read_fds,
                   procs, tb_fps, cur_fds, out, opened, waited, err>>
    /\ UNCHANGED <<wvars, cvars>>

Backfill ==
    /\ pc = "backfill"
    /\ TryPathGenNext("for")
    /\ UNCHANGED <<paths, ignore_logs, num_procs, content, x, cur_fds, waited>>
    /\ UNCHANGED <<wvars, cvars>>

\* The for loop has visited every read end select returned.
ForEnd ==
    /\ pc = "for"
    /\ cur_fds = {}
    /\ pc' = "while"
    /\ UNCHANGED <<paths, ignore_logs, num_procs, content, x, path_gen, read_fds,
                   procs, tb_fps, cur_fds, out, opened, waited, err>>
    /\ UNCHANGED <<wvars, cvars>>

\* The caller asks for the next record: the generator resumes after the yield.
Resume ==
    /\ pc = "yield"
    /\ pc' = "for"
    /\ UNCHANGED <<paths, ignore_logs, num_procs, content, x, path_gen, read_fds,
                   procs, tb_fps, cur_fds, out, opened, waited, err>>
    /\ UNCHANGED <<wvars, cvars>>

\* The caller drops the generator instead: GeneratorExit is raised at the
\* yield, "except StopIteration" does not catch it, and no other handler or
\* finally clause stands between the yield and the end of readtb.
Abandon ==
    /\ pc = "yield"
    /\ pc' = "closed"
    /\ UNCHANGED <<paths, ignore_logs, num_procs, content, x, path_gen, read_fds,
                   procs, tb_fps, cur_fds, out, opened, waited, err>>
    /\ UNCHANGED <<wvars, cvars>>

\* A dump subprocess ends (its write end of the pipe closes).
ProcExit(fd) ==
    /\ fd \in read_fds
    /\ procs[fd] = "running"
    /\ procs' = [procs EXCEPT ![fd] = "exited"]
    /\ UNCHANGED <<paths, ignore_logs, num_procs, content, pc, x, path_gen, read_fds,
                   tb_fps, cur_fds, out, opened, waited, err>>
    /\ UNCHANGED <<wvars, cvars>>

NextRead ==
    \/ Start
    \/ FillStep
    \/ Select
    \/ Finish
    \/ \E fd \in cur_fds : Yield(fd)
    \/ \E fd \in cur_fds : Retire(fd)
    \/ \E fd \in cur_fds : DecodeError(fd)
    \/ Backfill
    \/ ForEnd
    \/ Resume
    \/ Abandon
    \/ \E fd \in read_fds : ProcExit(fd)

\* ------------------------------------------------------- writetb: the steps
\* "bad" is a record the codec cannot encode: tb_fp.write raises on it.
KvValues == {"a", "b", "bad"}

Encodable(kv) == kv # "bad"

\* Leaving the with block, normally or by an exception: tb_fp is closed.
WithExit(fp) == [fp EXCEPT !.closed = TRUE]

\* State after lines 205-210: pipe made, loader spawned, read end closed.
InitWrite ==
    /\ kvs \in SeqsUpTo(KvValues, MaxKvs)
    /\ kvs_raises \in BOOLEAN
    /\ wpc = "for"
    /\ widx = 0
    /\ poll = "none"
    /\ written = <<>>
    /\ tb_fp = [flushed |-> FALSE, closed |-> FALSE]
    /\ loader = [running |-> TRUE, rcode |-> 0, consumed |-> 0]
    /\ collected = FALSE

\* "for kv in kvs": pull the next record, or leave the loop.  An error the
\* iterator raises leaves the with block and writetb.
WFor ==
    /\ wpc = "for"
    /\ IF widx < Len(kvs)
       THEN /\ widx' = widx + 1
            /\ poll' = "none"
            /\ wpc' = "poll"
            /\ UNCHANGED tb_fp
       ELSE IF kvs_raises
       THEN /\ tb_fp' = WithExit(tb_fp)
            /\ wpc' = "raised_kvs"
            /\ UNCHANGED <<widx, poll>>
       ELSE /\ wpc' = "flush"
            /\ UNCHANGED <<widx, poll, tb_fp>>
    /\ UNCHANGED <<kvs, kvs_raises, written, loader, collected>>
    /\ UNCHANGED <<rvars, cvars>>

\* "p.poll() is not None": the loader has exited.  The mutant never sees it.
PollNeverDead(ld) == FALSE

PollIsNotNone(ld) == ~ld.running

\* "if p.poll() is not None: raise IOError(... % p.communicate())"; the raise
\* leaves the with block, which closes tb_fp.
WPoll ==
    /\ wpc = "poll"
    /\ poll' = IF loader.running THEN "alive" ELSE "dead"
    /\ IF PollIsNotNone(loader)
       THEN /\ collected' = TRUE
            /\ tb_fp' = WithExit(tb_fp)
            /\ wpc' = "raised"
       ELSE /\ wpc' = "write"
            /\ UNCHANGED <<collected, tb_fp>>
    /\ UNCHANGED <<kvs, kvs_raises, widx, written, loader>>
    /\ UNCHANGED <<rvars, cvars>>

\* tb_fp.write(kv).  An error of the codec leaves the with block and writetb.
WWrite ==
    /\ wpc = "write"
    /\ IF Encodable(kvs[widx])
       THEN /\ written' = Append(written, kvs[widx])
            /\ wpc' = "for"
            /\ UNCHANGED tb_fp
       ELSE /\ tb_fp' = WithExit(tb_fp)
            /\ wpc' = "raised_write"
            /\ UNCHANGED written
    /\ UNCHANGED <<kvs, kvs_raises, widx, poll, loader, collected>>
    /\ UNCHANGED <<rvars, cvars>>

\* tb_fp.flush()
WFlush ==
    /\ wpc = "flush"
    /\ tb_fp' = [tb_fp EXCEPT !.flushed = TRUE]
    /\ wpc' = "close"
    /\ UNCHANGED <<kvs, kvs_raises, widx, poll, written, loader, collected>>
    /\ UNCHANGED <<rvars, cvars>>

\* The with block ends: tb_fp is closed.
WClose ==
    /\ wpc = "close"
    /\ tb_fp' = WithExit(tb_fp)
    /\ wpc' = "wait"
    /\ UNCHANGED <<kvs, kvs_raises, widx, poll, written, loader, collected>>
    /\ UNCHANGED <<rvars, cvars>>

\* What writetb does with the exit code p.wait() returns: nothing.
AfterWait(rcode) == "returned"

\* p.wait(): blocks until the loader has exited; writetb then returns.
WWait ==
    /\ wpc = "wait"
    /\ ~loader.running
    /\ collected' = TRUE
    /\ wpc' = AfterWait(loader.rcode)
    /\ UNCHANGED <<kvs, kvs_raises, widx, poll, written, tb_fp, loader>>
    /\ UNCHANGED <<rvars, cvars>>

\* The loader reads one record from its stdin.
LoaderConsume ==
    /\ loader.running
    /\ loader.consumed < Len(written)
    /\ loader' = [loader EXCEPT !.consumed = @ + 1]
    /\ UNCHANGED <<kvs, kvs_raises, wpc, widx, poll, written, tb_fp, collected>>
    /\ UNCHANGED <<rvars, cvars>>

\* The loader exits, with status 0 or 1.
LoaderExit ==
    /\ loader.running
    /\ \E rc \in {0, 1} : loader' = [loader EXCEPT !.running = FALSE, !.rcode = rc]
    /\ UNCHANGED <<kvs, kvs_raises, wpc, widx, poll, written, tb_fp, collected>>
    /\ UNCHANGED <<rvars, cvars>>

NextWrite ==
    \/ WFor
    \/ WPoll
    \/ WWrite
    \/ WFlush
    \/ WClose
    \/ WWait
    \/ LoaderConsume
    \/ LoaderExit

\* ------------------------------------- _checked_hadoop_fs_command: the steps
Cmds == {<<f, r>> : f \in {"hadoop fs -ls %s", "hadoop fs -rmr %s"}, r \in Roots}

\* Exit codes: 0, failures, and -9 for a child killed by a signal.
RCodes == {0, 1, 255, -9}

NoRet == [raised |-> FALSE, cmd |-> <<>>, rcode |-> 0, stdout |-> <<>>, stderr |-> ""]

\* State after "p = _hadoop_fs_command(cmd, *args, **kw)": the child runs.
InitChecked ==
    /\ cmd \in Cmds
    /\ child \in [running : {TRUE}, rcode : RCodes,
                  stdout : {<<>>, <<BlankLine>>}, stderr : {"", "ls: Cannot access"}]
    /\ cpc = "communicate"
    /\ ret = NoRet

\* The child exits.
ChildExit ==
    /\ cpc = "communicate"
    /\ child.running
    /\ child' = [child EXCEPT !.running = FALSE]
    /\ UNCHANGED <<cmd, cpc, ret>>
    /\ UNCHANGED <<rvars, wvars>>

\* p.communicate() returns once the child has exited; the exit code decides.
CheckedReturn ==
    /\ cpc = "communicate"
    /\ ~child.running
    /\ ret' = _checked_hadoop_fs_command([cmd |-> cmd, rcode |-> child.rcode,
                                          stdout |-> child.stdout, stderr |-> child.stderr])
    /\ cpc' = IF ret'.raised THEN "raised" ELSE "returned"
    /\ UNCHANGED <<cmd, child>>
    /\ UNCHANGED <<rvars, wvars>>

NextChecked ==
    \/ ChildExit
    \/ CheckedReturn

\* --------------------------------------------------------- specifications
vars == <<rvars, wvars, cvars>>

\* _checked_hadoop_fs_command is not running.
NoChecked ==
    /\ cmd = <<>>
    /\ child = [running |-> FALSE, rcode |-> 0, stdout |-> <<>>, stderr |-> ""]
    /\ cpc = "off"
    /\ ret = NoRet

\* readtb is not running.
NoRead ==
    /\ paths = <<>>
    /\ ignore_logs = TRUE
    /\ num_procs = 0
    /\ content = [f \in Files |-> 0]
    /\ pc = "off"
    /\ x = 0
    /\ path_gen = NonePathGen
    /\ read_fds = {}
    /\ procs = << >>
    /\ tb_fps = << >>
    /\ cur_fds = {}
    /\ out = << >>
    /\ opened = <<>>
    /\ waited = {}
    /\ err = ""

\* writetb is not running.
NoWrite ==
    /\ kvs = <<>>
    /\ kvs_raises = FALSE
    /\ wpc = "off"
    /\ widx = 0
    /\ poll = "none"
    /\ written = <<>>
    /\ tb_fp = [flushed |-> FALSE, closed |-> FALSE]
    /\ loader = [running |-> FALSE, rcode |-> 0, consumed |-> 0]
    /\ collected = FALSE

\* One call of readtb, iterated by its caller.
Init == InitRead /\ NoWrite /\ NoChecked

Spec == Init /\ [][NextRead]_vars

\* One call of writetb.
InitW == InitWrite /\ NoRead /\ NoChecked

SpecWrite == InitW /\ [][NextWrite]_vars

\* One call of _checked_hadoop_fs_command.
InitC == InitChecked /\ NoRead /\ NoWrite

SpecChecked == InitC /\ [][NextChecked]_vars

\* ------------------------------------------------------------ the claims
Min(a, b) == IF a <= b THEN a ELSE b

Count(sq, e) == Cardinality({i \in 1..Len(sq) : sq[i] = e})

RECURSIVE SumTo(_, _)
SumTo(f, n) == IF n = 0 THEN 0 ELSE f[n] + SumTo(f, n - 1)

\* Every concrete path the roots list (after filtering), in enumeration
\* order, up to the first root whose listing fails.
AllConcrete == PendingFrom(paths, ignore_logs, NewPathGen)

\* Number of records handed to the caller.
Yielded == SumTo([i \in 1..Len(opened) |-> Len(out[i])], Len(opened))

\* Number of times record r was handed to the caller.
YieldedTimes(r) == SumTo([i \in 1..Len(opened) |-> Count(out[i], r)], Len(opened))

\* C1: when readtb has run to the end of the merged sequence (with
\* num_procs >= 1), every listed path was read, the number of records handed
\* to the caller is the sum of the files' record counts, and each record of
\* a file was handed over exactly as many times as the file was listed:
\* nothing lost, nothing duplicated.
C1_ExactlyOnce ==
    pc = "done" =>
        /\ (num_procs >= 1 => opened = AllConcrete)
        /\ Yielded = SumTo([i \in 1..Len(opened) |-> content[opened[i]]], Len(opened))
        /\ \A f \in Files : \A j \in 1..MaxRecs :
              YieldedTimes(Rec(f, j)) = IF j <= content[f] THEN Count(opened, f) ELSE 0

C1_Witness ==
    /\ pc = "done"
    /\ Len(opened) >= 3
    /\ Yielded >= 4
    /\ \E i \in 1..Len(opened) : Len(out[i]) = 0

\* C2: at every moment the records of one source handed to the caller are
\* r1..rk of that source, in the decoder's order, whatever the order in
\* which select reported the sources readable.
C2_SourceOrder ==
    \A i \in DOMAIN out :
        /\ out[i] = [j \in 1..Len(out[i]) |-> Rec(opened[i], j)]
        /\ i \in read_fds => Len(out[i]) = tb_fps[i].pos

C2_Witness ==
    \E i, k \in read_fds :
        /\ i < k
        /\ Len(out[k]) = 2
        /\ Len(out[i]) = 1
        /\ content[opened[i]] = 2

\* C3: the number of active sources never exceeds num_procs.
C3_AtMostNumProcs ==
    /\ Cardinality(read_fds) <= num_procs
    /\ DOMAIN procs = read_fds
    /\ DOMAIN tb_fps = read_fds

C3_Witness ==
    /\ num_procs = 2
    /\ Cardinality(read_fds) = 2
    /\ Len(Pending) >= 1
    /\ waited # {}

\* C4: whenever a record is handed to the caller, the number of active
\* sources is min(num_procs, paths not yet retired); while a path is pending
\* it is num_procs.
C4_FillToCapacity ==
    pc = "yield" =>
        /\ Cardinality(read_fds) = Min(num_procs, Cardinality(read_fds) + Len(Pending))
        /\ Pending # <<>> => Cardinality(read_fds) = num_procs

C4_Witness ==
    /\ pc = "yield"
    /\ num_procs = 2
    /\ Cardinality(read_fds) = 2
    /\ Pending # <<>>
    /\ waited # {}

\* "hadoop fs -ls" of this root exits nonzero.
RootFails(root) == HadoopFsLs(root).rcode # 0

\* The concrete paths of the first k roots, in enumeration order.
ListedBy(k) == PendingFrom(SubSeq(paths, 1, k), ignore_logs, NewPathGen)

\* C5 as claimed: when the listing of a root fails, the error is raised
\* before any source was created and before any record was yielded.
C5_NoPartialStart ==
    pc = "error" => (opened = <<>> /\ Yielded = 0)

\* C5 as amended: roots are listed one at a time, when the sources of the
\* roots before them have all been created.  The error names the first root
\* whose listing fails and is raised before a source is created for a path
\* of that root or of a later one; the paths of the roots before it may have
\* been opened and read.  When the first root fails, or the roots before
\* the failing one list no path that survives filtering, nothing was
\* created or yielded; otherwise sources were created before the error.
\* With num_procs >= 1 no run over a failing root ends normally.
C5_ErrorBeforeOwnSources ==
    /\ pc = "error" =>
          \E k \in 1..Len(paths) :
              /\ err = paths[k]
              /\ RootFails(paths[k])
              /\ \A i \in 1..(k - 1) : ~RootFails(paths[i])
              /\ opened = ListedBy(k - 1)
              /\ k = 1 => (opened = <<>> /\ Yielded = 0)
              /\ ListedBy(k - 1) = <<>> => (opened = <<>> /\ Yielded = 0)
              /\ ListedBy(k - 1) # <<>> => opened # <<>>
    /\ (pc = "done" /\ num_procs >= 1) => \A k \in 1..Len(paths) : ~RootFails(paths[k])

C5_Witness ==
    /\ pc = "error"
    /\ Len(paths) = 2
    /\ err = paths[2]
    /\ Len(opened) = 2
    /\ Yielded >= 2

\* C6 as claimed: once the caller has abandoned the iteration, every source
\* that was created has had its subprocess collected and its pipe released.
C6_ReleasedOnAbandon ==
    pc = "closed" => \A i \in 1..Len(opened) : i \in waited /\ i \notin DOMAIN tb_fps

\* C7 as claimed: writetb returns normally only after it flushed and closed
\* the pipe and waited for the loader, and only if the loader's exit code
\* is 0.
C7_NonzeroExitFails ==
    wpc = "returned" =>
        /\ tb_fp.flushed
        /\ tb_fp.closed
        /\ collected
        /\ ~loader.running
        /\ loader.rcode = 0

\* C8 as claimed: with a loader that exits nonzero before it consumed all
\* the records, writetb does not return normally.
C8_FailingLoaderRaises ==
    (~loader.running /\ loader.rcode # 0 /\ loader.consumed < Len(kvs))
        => wpc # "returned"

\* C9: each record is pulled, then the loader is polled, then the record is
\* written.  A poll that saw the loader dead raises at once: nothing more is
\* pulled or written.  What was written is always a prefix of the input.
C9_PollBeforeWrite ==
    /\ [](/\ written = SubSeq(kvs, 1, Len(written))
          /\ Len(written) <= widx
          /\ widx <= Len(written) + 1
          /\ wpc = "write" => (poll = "alive" /\ widx = Len(written) + 1)
          /\ poll = "dead" => (wpc = "raised" /\ collected))
    /\ [][poll = "dead" => (written' = written /\ widx' = widx /\ wpc' = wpc)]_vars
    /\ [][written' # written =>
            (poll = "alive" /\ written' = Append(written, kvs[widx]))]_vars

C9_Witness ==
    /\ wpc = "raised"
    /\ poll = "dead"
    /\ Len(kvs) = 3
    /\ Len(written) = 1
    /\ widx = 2

\* C10 as claimed: the merged sequence ends normally only when no path is
\* pending and no source is active, whatever num_procs is.
C10_EndsIffBothEmpty ==
    pc = "done" => (Pending = <<>> /\ read_fds = {})

\* No root from the generator's position on fails to list.
NoBadRootAhead == ~HitsBadRoot(paths, ignore_logs, path_gen)

\* C10 as amended: the loop tests the active set alone.  The sequence never
\* ends while a source is active, and ends as soon as the loop test finds
\* none.  With num_procs >= 1 no path is pending at the end; with
\* num_procs = 0 nothing is ever opened and the sequence ends at once with
\* every path pending.  Once nothing is pending or active (and no failing
\* root is ahead) nothing more is opened or yielded.
C10_Termination ==
    /\ [](pc = "done" => read_fds = {})
    /\ []((pc = "done" /\ num_procs >= 1) => (Pending = <<>> /\ NoBadRootAhead))
    /\ []((pc = "done" /\ num_procs = 0) => (opened = <<>> /\ Pending = AllConcrete))
    /\ [][(pc = "while" /\ read_fds = {}) => pc' = "done"]_vars
    /\ [][(pc = "while" /\ read_fds # {}) => pc' # "done"]_vars
    /\ [][(read_fds = {} /\ Pending = <<>> /\ NoBadRootAhead)
            => (out' = out /\ opened' = opened /\ pc' \notin {"yield", "error"})]_vars

C10_Witness ==
    /\ pc = "done"
    /\ num_procs = 1
    /\ Len(opened) = 4
    /\ waited = 1..4

\* What the roots list, independently of the generator: the listings of the
\* roots in the order given, each in the order ls returned it, filtered when
\* ignore_logs is set, up to the first root whose listing fails.
RECURSIVE Enumerated(_, _)
Enumerated(ps, ign) ==
    IF ps = <<>> THEN <<>>
    ELSE LET r == ls(Head(ps))
         IN  IF r.raised THEN <<>>
             ELSE (IF ign THEN filter(r.out) ELSE r.out) \o Enumerated(Tail(ps), ign)

\* C11 as claimed: when readtb has reached the end of the merged sequence,
\* every concrete path that survived enumeration and filtering was
\* activated at most once and retired exactly once.
C11_OncePerPath ==
    pc = "done" =>
        \A f \in Files : Count(Enumerated(paths, ignore_logs), f) >= 1 =>
            /\ Count(opened, f) <= 1
            /\ Cardinality({fd \in waited : opened[fd] = f}) = 1

\* C11 as amended: activation and retirement are counted per listing
\* occurrence.  A path is never activated more often than the roots list it
\* (a path listed twice, under a root given twice, is activated twice);
\* every source created is either active or retired, never both, and a
\* retired source is never active again.  At the end of the merged sequence
\* with num_procs >= 1 every listed occurrence was activated once and every
\* source was retired; with num_procs = 0 nothing was activated or retired.
C11_OncePerListing ==
    /\ [](\A f \in Files : Count(opened, f) <= Count(Enumerated(paths, ignore_logs), f))
    /\ [](waited \cap read_fds = {} /\ waited \cup read_fds = 1..Len(opened))
    /\ []((pc = "done" /\ num_procs >= 1) =>
            /\ \A f \in Files : Count(opened, f) = Count(Enumerated(paths, ignore_logs), f)
            /\ waited = 1..Len(opened))
    /\ []((pc = "done" /\ num_procs = 0) => (opened = <<>> /\ waited = {}))
    /\ [][/\ waited \subseteq waited'
          /\ Cardinality(waited') <= Cardinality(waited) + 1
          /\ \A fd \in waited : fd \notin read_fds']_vars

C11_Witness ==
    /\ pc = "done"
    /\ num_procs = 2
    /\ paths = <<"d", "d">>
    /\ ~ignore_logs
    /\ Count(opened, P_dp0) = 2
    /\ waited = 1..4

\* The one path of this HDFS whose basename begins with "_".
IsLog(p) == p = P_dS

\* TRUE for the listed paths readtb is to read.
Wanted(p) == ~(ignore_logs /\ IsLog(p))

\* C12: with ignore_logs set no source is ever created for a listed path
\* whose basename begins with "_"; at the end of the merged sequence (with
\* num_procs >= 1) the sources created are the listed paths, in order,
\* without the "_" paths when ignore_logs is set and with them when it is
\* not.
C12_LogFiltering ==
    /\ ignore_logs => \A i \in 1..Len(opened) : ~IsLog(opened[i])
    /\ (pc = "done" /\ num_procs >= 1) =>
          opened = SelectSeq(Enumerated(paths, FALSE), Wanted)

C12_Witness ==
    /\ pc = "done"
    /\ ignore_logs
    /\ paths = <<"d", "z">>
    /\ Enumerated(paths, FALSE) = <<P_dS, P_dp0>>
    /\ opened = <<P_dp0>>
    /\ Len(out[1]) = 2

\* C13: _checked_hadoop_fs_command ends only when the command has exited; it
\* raises exactly when the exit code is not 0, and the error carries the
\* command text and the captured stderr; with exit code 0 it returns the exit
\* code, the captured stdout and the captured stderr.
C13_RaiseIffNonzero ==
    /\ cpc \in {"raised", "returned"} => ~child.running
    /\ cpc \in {"raised", "returned"} => (cpc = "raised" <=> child.rcode # 0)
    /\ cpc = "raised" =>
          (ret.raised /\ ret.cmd = cmd /\ ret.stderr = child.stderr)
    /\ cpc = "returned" =>
          /\ ~ret.raised
          /\ ret.rcode = 0
          /\ ret.stdout = child.stdout
          /\ ret.stderr = child.stderr

C13_Witness ==
    /\ cpc = "raised"
    /\ child.rcode = -9
    /\ child.stderr = "ls: Cannot access"
    /\ child.stdout # <<>>
    /\ ret.cmd = <<"hadoop fs -rmr %s", "d">>

\* C14 as claimed: readtb has no partial-success mode.  When the dump
\* subprocess of some source has exited abnormally, the merged sequence does
\* not complete normally.
C14_NoPartialSuccess ==
    pc = "done" => \A i \in 1..Len(opened) : DumpExitCode(opened[i]) = 0

\* C15: an error the decoder raises while a record is read leaves readtb at
\* that very call: the source is not retired as if its stream had ended,
\* nothing is yielded or opened by that step, and from then on the
\* generator is finished, so no record is yielded afterwards.
C15_DecodeErrorPropagates ==
    /\ [](err = "DecodeError" <=> pc = "decode_error")
    /\ [][(err' = "DecodeError" /\ err # "DecodeError") =>
            /\ pc = "for"
            /\ out' = out
            /\ opened' = opened
            /\ read_fds' = read_fds
            /\ tb_fps' = tb_fps
            /\ waited' = waited]_vars
    /\ [][pc = "decode_error" =>
            (pc' = pc /\ out' = out /\ opened' = opened /\ tb_fps' = tb_fps)]_vars

C15_Witness ==
    /\ pc = "decode_error"
    /\ Cardinality(read_fds) = 2
    /\ Yielded >= 2
    /\ \E fd \in read_fds : tb_fps[fd].pos < content[tb_fps[fd].path]
    /\ waited # {}

\* The decoder of an active source has no record left: its next() signals
\* end-of-stream.
AtEndOfStream(fd) == TbNext(tb_fps[fd].path, content[tb_fps[fd].path], tb_fps[fd].pos).stop

\* C16: a source leaves the active set only in the step in which its decoder
\* signalled end-of-stream, when all its records have been handed to the
\* caller, and whenever the loop reads a source at end-of-stream it is
\* retired.  A subprocess that exited early keeps its source active until
\* then.  The step goes on to the backfill whatever the exit status of the
\* subprocess.
C16_EndOfStreamRetires ==
    /\ [](\A fd \in waited : Len(out[fd]) = content[opened[fd]])
    /\ [](\A fd \in 1..Len(opened) :
            Len(out[fd]) < content[opened[fd]] => (fd \in read_fds /\ fd \notin waited))
    /\ [][\A fd \in read_fds : fd \notin read_fds' =>
            /\ pc = "for"
            /\ fd \in cur_fds
            /\ AtEndOfStream(fd)
            /\ Len(out[fd]) = content[opened[fd]]
            /\ fd \in waited'
            /\ pc' = "backfill"]_vars
    /\ [][\A fd \in cur_fds :
            (pc = "for" /\ fd \notin cur_fds' /\ AtEndOfStream(fd) /\ err' = err)
                => fd \notin read_fds']_vars

C16_Witness ==
    /\ pc = "backfill"
    /\ \E i \in waited :
          /\ DumpExitCode(opened[i]) # 0
          /\ Len(out[i]) = 2
    /\ \E k \in read_fds :
          /\ procs[k] = "exited"
          /\ tb_fps[k].pos < content[tb_fps[k].path]

\* C17: the step that retires a source finds its subprocess exited, collects
\* it, deletes its process and decoder entries and removes it from the
\* active set, and opens nothing.  Exactly one path_gen.next() follows: it
\* opens the first pending path if there is one and nothing otherwise.
\* After the initial fill a source is opened only by that step, so only when
\* the retired source is gone from the active set.
C17_RetirementOrder ==
    /\ [][\A fd \in waited' \ waited :
            /\ fd \in read_fds
            /\ procs[fd] = "exited"
            /\ fd \notin read_fds'
            /\ fd \notin DOMAIN procs'
            /\ fd \notin DOMAIN tb_fps'
            /\ opened' = opened
            /\ pc' = "backfill"]_vars
    /\ [](pc = "backfill" => (waited # {} /\ waited \cap read_fds = {}))
    /\ [][(pc = "backfill" /\ pc' # "backfill") =>
            /\ pc' \in {"for", "error"}
            /\ waited' = waited
            /\ pc' = "for" =>
                  opened' = IF Pending # <<>> THEN Append(opened, Pending[1]) ELSE opened
            /\ pc' = "error" => opened' = opened]_vars
    /\ [][(pc = "backfill" /\ pc' = "backfill") => opened' = opened]_vars
    /\ [][(opened' # opened /\ pc # "fill") =>
            (pc = "backfill" /\ waited \cap read_fds = {})]_vars

C17_Witness ==
    /\ pc = "for"
    /\ num_procs = 2
    /\ waited = {1}
    /\ read_fds = {2, 3}
    /\ Len(opened) = 3
    /\ Pending # <<>>

\* C18: every record decoded has been handed to the caller.  A step decodes
\* at most one record, of one source, hands it over and leaves the generator
\* suspended at the yield; while it is suspended there, and after the caller
\* has dropped it, no decoder is read.
C18_NoReadAhead ==
    /\ [](\A fd \in read_fds : tb_fps[fd].pos = Len(out[fd]))
    /\ [][\A fd \in read_fds \cap read_fds' :
            tb_fps'[fd].pos # tb_fps[fd].pos =>
                /\ tb_fps'[fd].pos = tb_fps[fd].pos + 1
                /\ out'[fd] = Append(out[fd], Rec(opened[fd], tb_fps[fd].pos + 1))
                /\ read_fds' = read_fds
                /\ \A k \in read_fds \ {fd} : tb_fps'[k] = tb_fps[k] /\ out'[k] = out[k]
                /\ pc = "for"
                /\ pc' = "yield"]_vars
    /\ [][pc = "yield" =>
            (tb_fps' = tb_fps /\ out' = out /\ pc' \in {"yield", "for", "closed"})]_vars
    /\ [][pc = "closed" => (tb_fps' = tb_fps /\ out' = out /\ pc' = "closed")]_vars

C18_Witness ==
    /\ pc = "yield"
    /\ Yielded = 3
    /\ Cardinality(read_fds) = 2
    /\ cur_fds # {}
    /\ \A fd \in read_fds : tb_fps[fd].pos < content[tb_fps[fd].path]

\* C19: at every moment the sources created so far are, in the order of
\* their creation, an initial part of the enumeration: the roots in the
\* order given, each root's listing in the order ls returned it, after
\* filtering.  No path is opened before one that precedes it.
C19_ActivationOrder ==
    /\ Len(opened) <= Len(Enumerated(paths, ignore_logs))
    /\ opened = SubSeq(Enumerated(paths, ignore_logs), 1, Len(opened))

C19_Witness ==
    /\ paths = <<"d", "d">>
    /\ ~ignore_logs
    /\ num_procs = 1
    /\ opened = <<P_dS, P_dp0, P_dS>>
    /\ waited = {1, 2}

\* C20 as claimed: whenever writetb has returned or raised (normal
\* completion, loader found dead by the poll, error of the input sequence,
\* error of encoding a record), the write end of the pipe is closed and the
\* loader's exit has been collected.
C20_ReleasedOnEveryExit ==
    wpc \in {"returned", "raised", "raised_kvs", "raised_write"} =>
        (tb_fp.closed /\ collected)

====
